---- MODULE Spec2Model ----
(***************************************************************************)
(* Model of the PostgreSQL readiness gate (pkg/core/database/postgres,     *)
(* Executor.Validate and its helpers) and of the provider source resolver  *)
(* (pkg/core, ParseProviderSource).                                        *)
(*                                                                         *)
(* Strings that the code takes apart (the version banner, the provider     *)
(* source) are sequences of one-character strings, so that splitting,      *)
(* parsing and joining are computed and not assumed.                       *)
(***************************************************************************)
EXTENDS Integers, Sequences, FiniteSets, TLC

VARIABLES
    pc,       \* pc[e]: position of the caller of executor e inside Validate
    dbId,     \* Executor.dbId
    info,     \* Executor.info
    dbIdErr,  \* the local dbIdErr of the running Validate
    resp,     \* what the store answered to each operation of the current pass
    calls,    \* store operations issued in the current pass, per kind
    leased,   \* pool connections acquired and not yet released
    ret,      \* what the most recent Validate returned
    out,      \* what the most recent Info / Identifier call returned
    prev,     \* the pass before the current one, as it ended (kept for comparison)
    vIn,      \* version check alone: the query result and the wanted version
    vOut,     \* version check alone: the error returned
    sIn,      \* resolver alone: the RequiredProvider
    sArgs,    \* resolver alone: the strings handed to registry.ParseProviderName
    sOut      \* resolver alone: the (org, provider, err) returned

gateVars == <<pc, dbId, info, dbIdErr, resp, calls, leased, ret, out, prev>>
verVars  == <<vIn, vOut>>
srcVars  == <<sIn, sArgs, sOut>>
vars     == <<pc, dbId, info, dbIdErr, resp, calls, leased, ret, out, prev,
              vIn, vOut, sIn, sArgs, sOut>>

(***************************************************************************)
(* Characters and strings                                                  *)
(***************************************************************************)
Digits == {"0", "1", "2", "3", "4", "5", "6", "7", "8", "9"}

Letters == {"a", "b", "w", "x", "P"}

\* unicode.IsSpace on the characters the model uses
IsSpace(c) == c \in {" ", "\t"}

DigitVal(c) ==
    CASE c = "0" -> 0 [] c = "1" -> 1 [] c = "2" -> 2 [] c = "3" -> 3
      [] c = "4" -> 4 [] c = "5" -> 5 [] c = "6" -> 6 [] c = "7" -> 7
      [] c = "8" -> 8 [] c = "9" -> 9

\* strings.Fields: the maximal runs of non-space characters, in order
RECURSIVE FieldsFrom(_, _, _, _)
FieldsFrom(s, i, cur, acc) ==
    IF i > Len(s)
    THEN IF cur = <<>> THEN acc ELSE Append(acc, cur)
    ELSE IF IsSpace(s[i])
         THEN FieldsFrom(s, i + 1, <<>>, IF cur = <<>> THEN acc ELSE Append(acc, cur))
         ELSE FieldsFrom(s, i + 1, Append(cur, s[i]), acc)

Fields(s) == FieldsFrom(s, 1, <<>>, <<>>)

\* strings.Split(s, sep) for a one-character separator
RECURSIVE SplitFrom(_, _, _, _, _)
SplitFrom(s, sep, i, cur, acc) ==
    IF i > Len(s)
    THEN Append(acc, cur)
    ELSE IF s[i] = sep
         THEN SplitFrom(s, sep, i + 1, <<>>, Append(acc, cur))
         ELSE SplitFrom(s, sep, i + 1, Append(cur, s[i]), acc)

Split(s, sep) == SplitFrom(s, sep, 1, <<>>, <<>>)

\* strings.Contains(s, c) for a one-character c
Contains(s, c) == \E i \in 1..Len(s) : s[i] = c

\* strconv.ParseInt of a non-empty run of digits
RECURSIVE ParseInt(_)
ParseInt(s) ==
    IF s = <<>> THEN 0
    ELSE 10 * ParseInt(SubSeq(s, 1, Len(s) - 1)) + DigitVal(s[Len(s)])

IsNumber(s) == s # <<>> /\ \A i \in 1..Len(s) : s[i] \in Digits

IsAlnum(s) == s # <<>> /\ \A i \in 1..Len(s) : s[i] \in Digits \cup Letters

(***************************************************************************)
(* hashicorp/go-version, as used through version.NewVersion and LessThan.  *)
(* A version is its numeric segments (padded with zeros to three) and its  *)
(* pre-release tag (<<>> when it has none).  The characters of the model   *)
(* hold no '-', '~' or '+', so the hyphenated pre-release forms and build  *)
(* metadata do not occur.                                                  *)
(***************************************************************************)
Max(a, b) == IF a >= b THEN a ELSE b

\* index of the first character that is neither a digit nor a dot
RECURSIVE CoreEnd(_, _)
CoreEnd(s, i) ==
    IF i > Len(s) \/ s[i] \notin Digits \cup {"."} THEN i ELSE CoreEnd(s, i + 1)

RECURSIVE PadZeros(_, _)
PadZeros(segs, n) == IF Len(segs) >= n THEN segs ELSE PadZeros(Append(segs, 0), n)

NoVersion == [ok |-> FALSE, segs |-> <<>>, pre |-> <<>>]

\* version.NewVersion(tok)
NewVersion(tok) ==
    LET t     == IF tok # <<>> /\ tok[1] = "v" THEN Tail(tok) ELSE tok
        k     == CoreEnd(t, 1)
        core  == SubSeq(t, 1, k - 1)
        pre   == SubSeq(t, k, Len(t))
        nums  == Split(core, ".")
        parts == Split(pre, ".")
    IN  IF /\ \A i \in 1..Len(nums) : IsNumber(nums[i])
           /\ pre = <<>> \/ \A i \in 1..Len(parts) : IsAlnum(parts[i])
        THEN [ok |-> TRUE,
              segs |-> PadZeros([i \in 1..Len(nums) |-> ParseInt(nums[i])], 3),
              pre |-> pre]
        ELSE NoVersion

AllZero(segs, from) == \A i \in from..Len(segs) : segs[i] = 0

\* byte order of the characters of the model
Ord(c) ==
    CASE c \in Digits -> 48 + DigitVal(c)
      [] c = "P" -> 80 [] c = "a" -> 97 [] c = "b" -> 98
      [] c = "w" -> 119 [] c = "x" -> 120
      [] OTHER -> 0

\* a > b for Go strings
RECURSIVE StrGreater(_, _)
StrGreater(a, b) ==
    IF a = <<>> THEN FALSE
    ELSE IF b = <<>> THEN TRUE
    ELSE IF a[1] # b[1] THEN Ord(a[1]) > Ord(b[1])
    ELSE StrGreater(Tail(a), Tail(b))

comparePart(preSelf, preOther) ==
    LET selfNumeric  == IsNumber(preSelf)
        otherNumeric == IsNumber(preOther)
    IN  IF preSelf = preOther THEN 0
        ELSE IF preSelf = <<>> THEN (IF otherNumeric THEN -1 ELSE 1)
        ELSE IF preOther = <<>> THEN (IF selfNumeric THEN 1 ELSE -1)
        ELSE IF selfNumeric /\ ~otherNumeric THEN -1
        ELSE IF ~selfNumeric /\ otherNumeric THEN 1
        ELSE IF ~selfNumeric /\ ~otherNumeric /\ StrGreater(preSelf, preOther) THEN 1
        ELSE IF selfNumeric /\ otherNumeric /\ ParseInt(preSelf) > ParseInt(preOther) THEN 1
        ELSE -1

RECURSIVE comparePartsFrom(_, _, _)
comparePartsFrom(a, b, i) ==
    IF i > Max(Len(a), Len(b)) THEN 0
    ELSE LET c == comparePart(IF i <= Len(a) THEN a[i] ELSE <<>>,
                              IF i <= Len(b) THEN b[i] ELSE <<>>)
         IN  IF c # 0 THEN c ELSE comparePartsFrom(a, b, i + 1)

comparePrereleases(v, other) ==
    IF v = other THEN 0 ELSE comparePartsFrom(Split(v, "."), Split(other, "."), 1)

RECURSIVE compareSegments(_, _, _)
compareSegments(a, b, i) ==
    IF i > Max(Len(a), Len(b)) THEN 0
    ELSE IF i > Len(a) THEN (IF ~AllZero(b, i) THEN -1 ELSE 0)
    ELSE IF i > Len(b) THEN (IF ~AllZero(a, i) THEN 1 ELSE 0)
    ELSE IF a[i] = b[i] THEN compareSegments(a, b, i + 1)
    ELSE IF a[i] < b[i] THEN -1 ELSE 1

\* Version.Compare
Compare(v, other) ==
    IF v.segs = other.segs /\ v.pre = other.pre THEN 0
    ELSE IF v.segs = other.segs
         THEN IF v.pre = <<>> THEN 1
              ELSE IF other.pre = <<>> THEN -1
              ELSE comparePrereleases(v.pre, other.pre)
         ELSE compareSegments(v.segs, other.segs, 1)

\* mutant: less than or equal
LessThanOrEqual(v, other) == Compare(v, other) <= 0

\* Version.LessThan
LessThan(v, other) == Compare(v, other) < 0

(***************************************************************************)
(* The version check                                                       *)
(***************************************************************************)
\* var MinPostgresVersion = version.Must(version.NewVersion("10.0"))
MinPostgresVersion == NewVersion(<<"1", "0", ".", "0">>)

\* mutant: the first field is taken for the version
runningVersionFromFirstField(q) ==
    LET fields == Fields(q.banner)
    IN  IF q.err THEN [v |-> NoVersion, err |-> "query"]
        ELSE IF Len(fields) < 2 THEN [v |-> NoVersion, err |-> "failed to parse version"]
        ELSE LET got == NewVersion(fields[1])
             IN  IF got.ok THEN [v |-> got, err |-> "nil"]
                 ELSE [v |-> NoVersion, err |-> "malformed version"]

\* runningPostgresVersion: q is the outcome of `SELECT version()`
\* ([err |-> TRUE] or the banner); the result is (version, error)
runningPostgresVersion(q) ==
    LET fields == Fields(q.banner)
    IN  IF q.err THEN [v |-> NoVersion, err |-> "query"]
        ELSE IF Len(fields) < 2 THEN [v |-> NoVersion, err |-> "failed to parse version"]
        ELSE LET got == NewVersion(fields[2])
             IN  IF got.ok THEN [v |-> got, err |-> "nil"]
                 ELSE [v |-> NoVersion, err |-> "malformed version"]

\* mutant: the error of runningPostgresVersion is dropped
doValidateGetErrorDropped(q, want) ==
    LET r == runningPostgresVersion(q)
    IN  IF r.err = "nil" /\ LessThan(r.v, want) THEN "unsupported PostgreSQL version"
        ELSE "nil"

\* doValidatePostgresVersion: the error returned ("nil" for none)
doValidatePostgresVersion(q, want) ==
    LET r == runningPostgresVersion(q)
    IN  IF r.err # "nil" THEN "error getting PostgreSQL version"
        ELSE IF LessThan(r.v, want) THEN "unsupported PostgreSQL version"
        ELSE "nil"

(***************************************************************************)
(* The store, as seen through its answers                                  *)
(***************************************************************************)
Executors == {1, 2}

\* pgxscan.Get into a string: the zero value "" is left on an error
IdResults == {[res |-> "", err |-> TRUE],
              [res |-> "7001", err |-> FALSE],
              [res |-> "7002", err |-> FALSE]}

ZeroInfo == [Version |-> "", Uptime |-> 0, FullVersion |-> ""]

StoreInfos == {[Version |-> "14.2", Uptime |-> 3600, FullVersion |-> "PostgreSQL 14.2 on x86_64"],
               [Version |-> "9.6", Uptime |-> 60, FullVersion |-> "PostgreSQL 9.6 on x86_64"]}

StatusResults == {[res |-> ZeroInfo, err |-> TRUE]} \cup {[res |-> i, err |-> FALSE] : i \in StoreInfos}

\* banners `SELECT version()` answers with in the gate's runs
GateBanners == {
    <<>>,
    <<"P">>,
    <<"P", " ", "x">>,
    <<"P", " ", "9", ".", "6">>,
    <<"P", " ", "1", "0", ".", "0", " ", "x">>,
    <<"P", " ", "1", "0", "b", "1", " ", "x">>,
    <<"P", " ", "1", "4", ".", "2", " ", "x">> }

VersionResults == {[banner |-> <<>>, err |-> TRUE]} \cup {[banner |-> b, err |-> FALSE] : b \in GateBanners}

NoResp == [connect |-> TRUE, ping |-> TRUE, id |-> [res |-> "", err |-> TRUE],
           status |-> [res |-> ZeroInfo, err |-> TRUE], acquire |-> TRUE,
           version |-> [banner |-> <<>>, err |-> TRUE]]

NoCalls == [connect |-> 0, ping |-> 0, id |-> 0, status |-> 0, acquire |-> 0, version |-> 0]

NoRet == [returned |-> FALSE, connected |-> FALSE, err |-> "nil"]

NoOut == [op |-> "none", info |-> ZeroInfo, id |-> "", present |-> FALSE, err |-> "nil"]

Return(connected, err) == [returned |-> TRUE, connected |-> connected, err |-> err]

\* no pass came before
NoPrev == [valid |-> FALSE, resp |-> NoResp, calls |-> NoCalls, ret |-> NoRet,
           dbId |-> "", info |-> ZeroInfo]

(***************************************************************************)
(* Executor                                                                *)
(***************************************************************************)
\* func New(dsn string) *Executor
GateInit ==
    /\ pc = [e \in Executors |-> "new"]
    /\ dbId = [e \in Executors |-> ""]
    /\ info = [e \in Executors |-> ZeroInfo]
    /\ dbIdErr = [e \in Executors |-> "nil"]
    /\ resp = [e \in Executors |-> NoResp]
    /\ calls = [e \in Executors |-> NoCalls]
    /\ leased = [e \in Executors |-> 0]
    /\ ret = [e \in Executors |-> NoRet]
    /\ out = [e \in Executors |-> NoOut]
    /\ prev = [e \in Executors |-> NoPrev]

\* Validate is entered: pool, err := sdkpg.Connect(ctx, e.dsn)
Connect(e) ==
    /\ pc[e] \in {"new", "done"}
    /\ \E ok \in BOOLEAN :
        /\ resp' = [resp EXCEPT ![e] = [NoResp EXCEPT !.connect = ok]]
        /\ calls' = [calls EXCEPT ![e] = [NoCalls EXCEPT !.connect = 1]]
        /\ IF ok
           THEN pc' = [pc EXCEPT ![e] = "ping"] /\ ret' = [ret EXCEPT ![e] = NoRet]
           ELSE pc' = [pc EXCEPT ![e] = "done"] /\ ret' = [ret EXCEPT ![e] = Return(FALSE, "connect")]
    /\ dbIdErr' = [dbIdErr EXCEPT ![e] = "nil"]
    /\ out' = [out EXCEPT ![e] = NoOut]
    /\ UNCHANGED <<dbId, info, leased>>

\* mutant: the error of the ping is not checked
PingErrorIgnored(e) ==
    /\ pc[e] = "ping"
    /\ \E ok \in BOOLEAN : resp' = [resp EXCEPT ![e].ping = ok]
    /\ pc' = [pc EXCEPT ![e] = "getid"]
    /\ calls' = [calls EXCEPT ![e].ping = @ + 1]
    /\ UNCHANGED <<dbId, info, dbIdErr, leased, ret, out>>

\* ValidatePostgresConnection: pool.Ping under a 10 s timeout
ValidatePostgresConnection(e) ==
    /\ pc[e] = "ping"
    /\ \E ok \in BOOLEAN :
        /\ resp' = [resp EXCEPT ![e].ping = ok]
        /\ IF ok
           THEN pc' = [pc EXCEPT ![e] = "getid"] /\ ret' = ret
           ELSE pc' = [pc EXCEPT ![e] = "done"] /\ ret' = [ret EXCEPT ![e] = Return(FALSE, "ping")]
    /\ calls' = [calls EXCEPT ![e].ping = @ + 1]
    /\ UNCHANGED <<dbId, info, dbIdErr, leased, out>>

\* mutant: Validate returns as soon as the identity query fails
IdentityErrorEndsPass(e) ==
    /\ pc[e] = "getid"
    /\ \E r \in IdResults :
        /\ resp' = [resp EXCEPT ![e].id = r]
        /\ dbId' = [dbId EXCEPT ![e] = r.res]
        /\ dbIdErr' = [dbIdErr EXCEPT ![e] = IF r.err THEN "identity" ELSE "nil"]
        /\ IF r.err
           THEN pc' = [pc EXCEPT ![e] = "done"] /\ ret' = [ret EXCEPT ![e] = Return(TRUE, "identity")]
           ELSE pc' = [pc EXCEPT ![e] = "getinfo"] /\ ret' = ret
    /\ calls' = [calls EXCEPT ![e].id = @ + 1]
    /\ UNCHANGED <<info, leased, out>>

\* mutant: the identity is kept in a variable all Executors share
IdentityInSharedVariable(e) ==
    /\ pc[e] = "getid"
    /\ \E r \in IdResults :
        /\ resp' = [resp EXCEPT ![e].id = r]
        /\ dbId' = [x \in Executors |-> r.res]
        /\ dbIdErr' = [dbIdErr EXCEPT ![e] = IF r.err THEN "identity" ELSE "nil"]
    /\ calls' = [calls EXCEPT ![e].id = @ + 1]
    /\ pc' = [pc EXCEPT ![e] = "getinfo"]
    /\ UNCHANGED <<info, leased, ret, out>>

\* mutant: an identity that is already cached is not queried again
IdentityServedFromCache(e) ==
    /\ pc[e] = "getid"
    /\ IF dbId[e] # ""
       THEN UNCHANGED <<resp, dbId, dbIdErr, calls>>
       ELSE /\ \E r \in IdResults :
                /\ resp' = [resp EXCEPT ![e].id = r]
                /\ dbId' = [dbId EXCEPT ![e] = r.res]
                /\ dbIdErr' = [dbIdErr EXCEPT ![e] = IF r.err THEN "identity" ELSE "nil"]
            /\ calls' = [calls EXCEPT ![e].id = @ + 1]
    /\ pc' = [pc EXCEPT ![e] = "getinfo"]
    /\ UNCHANGED <<info, leased, ret, out>>

\* mutant: e.dbId is assigned only when the identity query succeeds
IdentityKeptOnError(e) ==
    /\ pc[e] = "getid"
    /\ \E r \in IdResults :
        /\ resp' = [resp EXCEPT ![e].id = r]
        /\ dbId' = [dbId EXCEPT ![e] = IF r.err THEN @ ELSE r.res]
        /\ dbIdErr' = [dbIdErr EXCEPT ![e] = IF r.err THEN "identity" ELSE "nil"]
    /\ calls' = [calls EXCEPT ![e].id = @ + 1]
    /\ pc' = [pc EXCEPT ![e] = "getinfo"]
    /\ UNCHANGED <<info, leased, ret, out>>

\* e.dbId, dbIdErr = GetDatabaseId(ctx, pool)
GetDatabaseId(e) ==
    /\ pc[e] = "getid"
    /\ \E r \in IdResults :
        /\ resp' = [resp EXCEPT ![e].id = r]
        /\ dbId' = [dbId EXCEPT ![e] = r.res]
        /\ dbIdErr' = [dbIdErr EXCEPT ![e] = IF r.err THEN "identity" ELSE "nil"]
    /\ calls' = [calls EXCEPT ![e].id = @ + 1]
    /\ pc' = [pc EXCEPT ![e] = "getinfo"]
    /\ UNCHANGED <<info, leased, ret, out>>

\* the sentinel GetDatabaseInfo answers with when its query fails
UnknownInfo == [Version |-> "unknown", Uptime |-> 0, FullVersion |-> "unknown"]

\* mutant: the scanned (zero) value is returned on an error too
DatabaseInfoUnchecked(r) == r.res

\* the value GetDatabaseInfo returns for the query outcome r
DatabaseInfoOf(r) == IF r.err THEN UnknownInfo ELSE r.res

\* mutant: the error of the status query is kept and returned like the identity error
StatusErrorKept(e) ==
    /\ pc[e] = "getinfo"
    /\ \E r \in StatusResults :
        /\ resp' = [resp EXCEPT ![e].status = r]
        /\ info' = [info EXCEPT ![e] = DatabaseInfoOf(r)]
        /\ dbIdErr' = [dbIdErr EXCEPT ![e] = IF r.err /\ @ = "nil" THEN "status" ELSE @]
    /\ calls' = [calls EXCEPT ![e].status = @ + 1]
    /\ pc' = [pc EXCEPT ![e] = "acquire"]
    /\ UNCHANGED <<dbId, leased, ret, out>>

\* e.info = GetDatabaseInfo(ctx, pool)
GetDatabaseInfo(e) ==
    /\ pc[e] = "getinfo"
    /\ \E r \in StatusResults :
        /\ resp' = [resp EXCEPT ![e].status = r]
        /\ info' = [info EXCEPT ![e] = DatabaseInfoOf(r)]
    /\ calls' = [calls EXCEPT ![e].status = @ + 1]
    /\ pc' = [pc EXCEPT ![e] = "acquire"]
    /\ UNCHANGED <<dbId, dbIdErr, leased, ret, out>>

\* mutant: a failed lease is reported as a store that is not connected
AcquireFailureNotConnected(e) ==
    /\ pc[e] = "acquire"
    /\ \E ok \in BOOLEAN :
        /\ resp' = [resp EXCEPT ![e].acquire = ok]
        /\ IF ok
           THEN /\ pc' = [pc EXCEPT ![e] = "version"]
                /\ leased' = [leased EXCEPT ![e] = @ + 1]
                /\ ret' = ret
           ELSE /\ pc' = [pc EXCEPT ![e] = "done"]
                /\ leased' = leased
                /\ ret' = [ret EXCEPT ![e] = Return(FALSE, "acquire")]
    /\ calls' = [calls EXCEPT ![e].acquire = @ + 1]
    /\ UNCHANGED <<dbId, info, dbIdErr, out>>

\* ValidatePostgresVersion, first half: conn, err := pool.Acquire(ctx)
Acquire(e) ==
    /\ pc[e] = "acquire"
    /\ \E ok \in BOOLEAN :
        /\ resp' = [resp EXCEPT ![e].acquire = ok]
        /\ IF ok
           THEN /\ pc' = [pc EXCEPT ![e] = "version"]
                /\ leased' = [leased EXCEPT ![e] = @ + 1]
                /\ ret' = ret
           ELSE /\ pc' = [pc EXCEPT ![e] = "done"]
                /\ leased' = leased
                /\ ret' = [ret EXCEPT ![e] = Return(TRUE, "acquire")]
    /\ calls' = [calls EXCEPT ![e].acquire = @ + 1]
    /\ UNCHANGED <<dbId, info, dbIdErr, out>>

\* mutant: the identity error is dropped
ValidateResultIdentityDropped(versionErr, idErr) ==
    IF versionErr # "nil" THEN Return(TRUE, versionErr) ELSE Return(TRUE, "nil")

\* mutant: a failed version check reports the store as not connected
ValidateResultVersionFatal(versionErr, idErr) ==
    IF versionErr # "nil" THEN Return(FALSE, versionErr) ELSE Return(TRUE, idErr)

\* mutant: the identity error is looked at before the version check's
ValidateResultIdentityFirst(versionErr, idErr) ==
    IF idErr # "nil" THEN Return(TRUE, idErr) ELSE Return(TRUE, versionErr)

\* the tail of Validate: what it returns for the version check's error
ValidateResult(versionErr, idErr) ==
    IF versionErr # "nil" THEN Return(TRUE, versionErr) ELSE Return(TRUE, idErr)

\* mutant: the connection is released only when the check succeeds
VersionCheckLeaksOnError(e) ==
    /\ pc[e] = "version"
    /\ \E q \in VersionResults :
        /\ resp' = [resp EXCEPT ![e].version = q]
        /\ ret' = [ret EXCEPT ![e] =
                     ValidateResult(doValidatePostgresVersion(q, MinPostgresVersion), dbIdErr[e])]
        /\ leased' = [leased EXCEPT ![e] =
                        IF doValidatePostgresVersion(q, MinPostgresVersion) = "nil" THEN @ - 1 ELSE @]
    /\ calls' = [calls EXCEPT ![e].version = @ + 1]
    /\ pc' = [pc EXCEPT ![e] = "done"]
    /\ UNCHANGED <<dbId, info, dbIdErr, out>>

\* ValidatePostgresVersion, second half: the check on the leased connection,
\* the deferred conn.Release(), and Validate's return
ValidatePostgresVersion(e) ==
    /\ pc[e] = "version"
    /\ \E q \in VersionResults :
        /\ resp' = [resp EXCEPT ![e].version = q]
        /\ ret' = [ret EXCEPT ![e] =
                     ValidateResult(doValidatePostgresVersion(q, MinPostgresVersion), dbIdErr[e])]
    /\ calls' = [calls EXCEPT ![e].version = @ + 1]
    /\ leased' = [leased EXCEPT ![e] = @ - 1]
    /\ pc' = [pc EXCEPT ![e] = "done"]
    /\ UNCHANGED <<dbId, info, dbIdErr, out>>

\* mutant: Info queries the store again
InfoRequeries(e) ==
    /\ pc[e] \in {"new", "done"}
    /\ \E r \in StatusResults :
        /\ info' = [info EXCEPT ![e] = DatabaseInfoOf(r)]
        /\ out' = [out EXCEPT ![e] = [NoOut EXCEPT !.op = "Info", !.info = DatabaseInfoOf(r)]]
    /\ calls' = [calls EXCEPT ![e].status = @ + 1]
    /\ UNCHANGED <<pc, dbId, dbIdErr, resp, leased, ret>>

\* func (e *Executor) Info(context.Context) (model.DatabaseInfo, error)
Info(e) ==
    /\ pc[e] \in {"new", "done"}
    /\ out' = [out EXCEPT ![e] = [NoOut EXCEPT !.op = "Info", !.info = info[e], !.err = "nil"]]
    /\ UNCHANGED <<pc, dbId, info, dbIdErr, resp, calls, leased, ret>>

\* func (e Executor) Identifier(_ context.Context) (string, bool)
Identifier(e) ==
    /\ pc[e] \in {"new", "done"}
    /\ out' = [out EXCEPT ![e] =
                 IF dbId[e] = ""
                 THEN [NoOut EXCEPT !.op = "Identifier", !.id = "", !.present = FALSE]
                 ELSE [NoOut EXCEPT !.op = "Identifier", !.id = dbId[e], !.present = TRUE]]
    /\ UNCHANGED <<pc, dbId, info, dbIdErr, resp, calls, leased, ret>>

VerIdle == vIn = [q |-> [banner |-> <<>>, err |-> TRUE], want |-> MinPostgresVersion] /\ vOut = "none"

(***************************************************************************)
(* ParseProviderSource                                                     *)
(***************************************************************************)
\* a *string: nil, or a pointer to val
NilString == [isNil |-> TRUE, val |-> <<>>]

Ptr(str) == [isNil |-> FALSE, val |-> str]

\* strings.Join([]string{a, b}, "/")
JoinSlash(a, b) == a \o <<"/">> \o b

\* mutant: only a nil Source falls back to the name
requestedSourceNilOnly(p) ==
    IF p.Source.isNil THEN p.Name
    ELSE IF ~Contains(p.Source.val, "/") THEN JoinSlash(p.Source.val, p.Name)
    ELSE p.Source.val

\* mutant: the name is appended to every explicit source
requestedSourceAlwaysJoined(p) ==
    IF p.Source.isNil \/ p.Source.val = <<>> THEN p.Name
    ELSE JoinSlash(p.Source.val, p.Name)

\* the local requestedSource of ParseProviderSource at its return statement
requestedSource(p) ==
    IF p.Source.isNil \/ p.Source.val = <<>> THEN p.Name
    ELSE IF ~Contains(p.Source.val, "/") THEN JoinSlash(p.Source.val, p.Name)
    ELSE p.Source.val

\* the organization a bare provider name resolves to
DefaultOrganization == <<"d">>

\* characters a normalized identifier is made of
IdentChars == {"a", "w", "d", "-"} \cup Digits

IsIdent(str) == str # <<>> /\ \A i \in 1..Len(str) : str[i] \in IdentChars

\* registry.ParseProviderName: (organization, name, error)
ParseProviderName(str) ==
    LET ss == Split(str, "/")
        bad == [org |-> <<>>, provider |-> <<>>, err |-> "invalid provider name"]
    IN  IF Len(ss) = 1
        THEN IF IsIdent(ss[1])
             THEN [org |-> DefaultOrganization, provider |-> ss[1], err |-> "nil"]
             ELSE bad
        ELSE IF Len(ss) = 2 /\ IsIdent(ss[1]) /\ IsIdent(ss[2])
             THEN [org |-> ss[1], provider |-> ss[2], err |-> "nil"]
             ELSE bad

NoResult == [called |-> FALSE, org |-> <<>>, provider |-> <<>>, err |-> "nil"]

SrcIdle == sIn = [Source |-> NilString, Name |-> <<>>] /\ sArgs = <<>> /\ sOut = NoResult

\* one gate, used by one caller at a time
Solo == {1}

Init == GateInit /\ VerIdle /\ SrcIdle

Next ==
    \/ \E e \in Solo : Connect(e) /\ UNCHANGED <<prev, verVars, srcVars>>
    \/ \E e \in Solo : ValidatePostgresConnection(e) /\ UNCHANGED <<prev, verVars, srcVars>>
    \/ \E e \in Solo : GetDatabaseId(e) /\ UNCHANGED <<prev, verVars, srcVars>>
    \/ \E e \in Solo : GetDatabaseInfo(e) /\ UNCHANGED <<prev, verVars, srcVars>>
    \/ \E e \in Solo : Acquire(e) /\ UNCHANGED <<prev, verVars, srcVars>>
    \/ \E e \in Solo : ValidatePostgresVersion(e) /\ UNCHANGED <<prev, verVars, srcVars>>
    \/ \E e \in Solo : Info(e) /\ UNCHANGED <<prev, verVars, srcVars>>
    \/ \E e \in Solo : Identifier(e) /\ UNCHANGED <<prev, verVars, srcVars>>

Spec == Init /\ [][Next]_vars

(***************************************************************************)
(* Properties of the gate                                                  *)
(***************************************************************************)
\* the pass of e has ended and Validate has returned
Ended(e) == pc[e] = "done" /\ ret[e].returned

\* the pass of e failed to connect or to ping
Unreachable(e) ==
    \/ calls[e].connect = 1 /\ ~resp[e].connect
    \/ calls[e].ping = 1 /\ ~resp[e].ping

\* C1: a pass whose connection or ping fails has returned connected=false
\* with an error, and has issued no identity, status or version query.
C1_UnreachableShortCircuits ==
    \A e \in Executors :
        Unreachable(e) =>
            /\ Ended(e)
            /\ ret[e].connected = FALSE
            /\ ret[e].err # "nil"
            /\ calls[e].id = 0 /\ calls[e].status = 0 /\ calls[e].version = 0

C1_Witness ==
    /\ Ended(1) /\ calls[1].ping = 1 /\ ~resp[1].ping
    /\ ret[1] = Return(FALSE, "ping")

\* the identity query of the ended pass of e failed
IdentityFailed(e) == Ended(e) /\ calls[e].id = 1 /\ resp[e].id.err

\* the version check of the ended pass of e ran and found no fault
VersionPassed(e) ==
    /\ calls[e].version = 1
    /\ ~resp[e].version.err
    /\ Len(Fields(resp[e].version.banner)) >= 2
    /\ LET got == NewVersion(Fields(resp[e].version.banner)[2])
       IN  got.ok /\ Compare(got, MinPostgresVersion) >= 0

\* C2 as stated: after a pass whose ping succeeded and whose identity query
\* failed, connected=true, Identifier reports present=false, and the error
\* returned is never the identity error.
C2_IdentityErrorNotReturned ==
    \A e \in Executors :
        IdentityFailed(e) =>
            /\ ret[e].connected
            /\ out[e].op = "Identifier" => ~out[e].present
            /\ ret[e].err # "identity"

\* C2 amended: after such a pass connected=true and Identifier reports
\* present=false; the identity error did not end the pass (the status query
\* was issued), and it is the error Validate returns exactly when the version
\* check passed, a version-check error being returned otherwise.
C2_IdentityErrorDeferred ==
    \A e \in Executors :
        IdentityFailed(e) =>
            /\ ret[e].connected
            /\ out[e].op = "Identifier" => ~out[e].present /\ out[e].id = ""
            /\ calls[e].status = 1 /\ calls[e].acquire = 1
            /\ ret[e].err = "identity" <=> VersionPassed(e)
            /\ ret[e].err # "nil"

C2_Witness ==
    /\ IdentityFailed(1) /\ VersionPassed(1)
    /\ ret[1] = Return(TRUE, "identity")
    /\ out[1].op = "Identifier" /\ ~out[1].present

\* numeric order of two segment tuples, missing components read as zero
Seg(segs, i) == IF i <= Len(segs) THEN segs[i] ELSE 0

NumLess(a, b) ==
    \E i \in 1..Max(Len(a), Len(b)) :
        /\ Seg(a, i) < Seg(b, i)
        /\ \A j \in 1..(i - 1) : Seg(a, j) = Seg(b, j)

\* the ended pass of e read a banner whose version is numerically below the minimum
BelowMinimum(e) ==
    /\ Ended(e) /\ calls[e].version = 1 /\ ~resp[e].version.err
    /\ Len(Fields(resp[e].version.banner)) >= 2
    /\ LET got == NewVersion(Fields(resp[e].version.banner)[2])
       IN  got.ok /\ NumLess(got.segs, <<10, 0>>)

\* C3: a pass on a reachable store whose version is below the minimum returns
\* connected=true with the version error, and the identity and status it got
\* are what the Executor holds and what Identifier and Info return.
C3_TooOldStillConnected ==
    \A e \in Executors :
        BelowMinimum(e) =>
            /\ ret[e] = Return(TRUE, "unsupported PostgreSQL version")
            /\ dbId[e] = resp[e].id.res
            /\ ~resp[e].status.err => info[e] = resp[e].status.res
            /\ out[e].op = "Identifier" =>
                   out[e].id = resp[e].id.res /\ out[e].present = ~resp[e].id.err
            /\ out[e].op = "Info" /\ ~resp[e].status.err => out[e].info = resp[e].status.res

C3_Witness ==
    /\ BelowMinimum(1)
    /\ resp[1].version.banner = <<"P", " ", "9", ".", "6">>
    /\ out[1] = [NoOut EXCEPT !.op = "Identifier", !.id = "7001", !.present = TRUE]
    /\ info[1] \in StoreInfos
    /\ ret[1].connected /\ ret[1].err # "nil"

\* the ended pass of e could not obtain a running version
VersionUnobtainable(e) ==
    /\ Ended(e) /\ calls[e].version = 1
    /\ \/ resp[e].version.err
       \/ Len(Fields(resp[e].version.banner)) < 2
       \/ ~NewVersion(Fields(resp[e].version.banner)[2]).ok

\* C4: when the version query fails, the banner has fewer than two fields or
\* its version token is malformed, Validate returns connected=true with an
\* error, never nil.
C4_UnparsableVersionFails ==
    \A e \in Executors :
        VersionUnobtainable(e) =>
            /\ ret[e].connected
            /\ ret[e].err = "error getting PostgreSQL version"

C4_Witness ==
    /\ VersionUnobtainable(1)
    /\ resp[1].version = [banner |-> <<"P">>, err |-> FALSE]
    /\ ~resp[1].id.err
    /\ ret[1].connected /\ ret[1].err # "nil"

\* C5: when the status query fails the Executor holds exactly
\* {Version "unknown", Uptime 0, FullVersion "unknown"}, and Info returns it
\* with no error.
C5_StatusSentinel ==
    \A e \in Executors :
        calls[e].status = 1 /\ resp[e].status.err =>
            /\ info[e] = [Version |-> "unknown", Uptime |-> 0, FullVersion |-> "unknown"]
            /\ out[e].op = "Info" =>
                   /\ out[e].info = [Version |-> "unknown", Uptime |-> 0, FullVersion |-> "unknown"]
                   /\ out[e].err = "nil"

C5_Witness ==
    /\ Ended(1) /\ calls[1].status = 1 /\ resp[1].status.err
    /\ out[1].op = "Info" /\ out[1].info.Version = "unknown"

\* C6: a call of Info or Identifier returns the cached status or identity
\* (those of the pass, when the pass queried them), with no error, issues no
\* store operation and changes nothing of the Executor.
C6_AccessorsOnlyRead ==
    [][\A e \in Executors :
          (out'[e] # out[e] /\ out'[e].op # "none") =>
              /\ UNCHANGED <<pc, dbId, info, dbIdErr, resp, calls, leased, ret>>
              /\ out'[e].err = "nil"
              /\ out'[e].op = "Info" =>
                     /\ out'[e].info = info[e]
                     /\ calls[e].status = 1 => out'[e].info = DatabaseInfoOf(resp[e].status)
              /\ out'[e].op = "Identifier" =>
                     /\ out'[e].id = dbId[e] /\ out'[e].present = (dbId[e] # "")
                     /\ calls[e].id = 1 => out'[e].id = resp[e].id.res]_vars

C6_Witness ==
    /\ Ended(1) /\ ret[1].connected
    /\ out[1].op = "Info" /\ out[1].info \in StoreInfos

\* C7 as stated: whenever the most recent pass returned connected=false, the
\* Executor holds no identity and no status of a store.
C7_UnreachableHoldsNothing ==
    \A e \in Executors :
        Ended(e) /\ ~ret[e].connected =>
            /\ dbId[e] = ""
            /\ info[e] \notin StoreInfos
            /\ out[e].op = "Identifier" => ~out[e].present

(***************************************************************************)
(* The version check on its own: doValidatePostgresVersion applied to      *)
(* every banner of a bounded set and to several wanted versions            *)
(***************************************************************************)
MaxTokenLen == 4

VerChars == {"0", "1", "9", ".", "b"}

SeqsUpTo(S, n) == UNION {[1..k -> S] : k \in 1..n}

\* candidates for the version token of a banner
Tokens == SeqsUpTo(VerChars, MaxTokenLen)

\* what a banner starts with: a product name, or something that reads as a version
Leading == {<<"P">>, <<"9", ".", "6">>}

\* what follows the version token: nothing, or further fields
Trailing == {<<>>, <<" ", "1", "4", ".", "2", " ", "x">>}

Banners ==
    {l \o <<" ">> \o t \o r : l \in Leading, t \in Tokens, r \in Trailing}
        \cup Tokens
        \cup {<<>>, <<" ">>, <<"P">>, <<"P", " ">>,
              <<" ", "P", "\t", " ", "1", "0", ".", "0", " ">>}

VersionQueries == {[banner |-> <<>>, err |-> TRUE]} \cup {[banner |-> b, err |-> FALSE] : b \in Banners}

\* release versions a caller may want: 10.0 (the program's), 9 and 1.1
Wants == {MinPostgresVersion, NewVersion(<<"9">>), NewVersion(<<"1", ".", "1">>)}

NoCheck == [done |-> FALSE, got |-> NoVersion, err |-> "nil"]

InitVersion ==
    /\ GateInit /\ SrcIdle
    /\ vIn \in [q : VersionQueries, want : Wants]
    /\ vOut = NoCheck

\* one call doValidatePostgresVersion(ctx, q, want)
CheckVersion ==
    /\ ~vOut.done
    /\ vOut' = [done |-> TRUE,
                got |-> runningPostgresVersion(vIn.q).v,
                err |-> doValidatePostgresVersion(vIn.q, vIn.want)]
    /\ UNCHANGED <<vIn, gateVars, srcVars>>

NextVersion == CheckVersion

SpecVersion == InitVersion /\ [][NextVersion]_vars

\* a version was obtained from the banner
Parsed == vOut.done /\ vOut.got.ok

\* C8 as stated: the check succeeds exactly when the running version is not
\* numerically less than the wanted one.
C8_NumericOrderDecides ==
    Parsed => (vOut.err = "nil" <=> ~NumLess(vOut.got.segs, vIn.want.segs))

\* got is a pre-release of the very version that is wanted
PreReleaseOf(got, want) ==
    /\ got.pre # <<>>
    /\ ~NumLess(got.segs, want.segs) /\ ~NumLess(want.segs, got.segs)

\* C8 amended: against a release minimum, the check succeeds exactly when the
\* running version is not numerically less than the minimum and is not a
\* pre-release of the minimum itself; a release equal to the minimum passes.
C8_NumericOrderAndPreRelease ==
    Parsed =>
        /\ vOut.err = "nil" <=>
               /\ ~NumLess(vOut.got.segs, vIn.want.segs)
               /\ ~PreReleaseOf(vOut.got, vIn.want)
        /\ vOut.err # "nil" => vOut.err = "unsupported PostgreSQL version"
        /\ vOut.got = vIn.want => vOut.err = "nil"

C8_Witness ==
    /\ Parsed
    /\ vIn.q.banner = <<"P", " ", "1", "0">>
    /\ vIn.want = MinPostgresVersion
    /\ vOut.got.segs = <<10, 0, 0>>
    /\ vOut.err = "nil"

\* the outcome of the check had the version been read from token tok
OutcomeFor(tok, want) ==
    IF ~NewVersion(tok).ok THEN [got |-> NoVersion, err |-> "error getting PostgreSQL version"]
    ELSE [got |-> NewVersion(tok),
          err |-> IF Compare(NewVersion(tok), want) < 0
                  THEN "unsupported PostgreSQL version" ELSE "nil"]

Outcome == [got |-> vOut.got, err |-> vOut.err]

\* C9 as stated: the version parsed and compared is the leading field of
\* the banner.
C9_LeadingFieldParsed ==
    vOut.done /\ ~vIn.q.err /\ Fields(vIn.q.banner) # <<>> =>
        Outcome = OutcomeFor(Fields(vIn.q.banner)[1], vIn.want)

\* C9 amended: the version parsed and compared is the second field of the
\* banner; the first field and every field after the second are ignored, and
\* a banner of fewer than two fields yields no version.
C9_SecondFieldParsed ==
    vOut.done /\ ~vIn.q.err =>
        IF Len(Fields(vIn.q.banner)) >= 2
        THEN Outcome = OutcomeFor(Fields(vIn.q.banner)[2], vIn.want)
        ELSE Outcome = [got |-> NoVersion, err |-> "error getting PostgreSQL version"]

C9_Witness ==
    /\ vOut.done
    /\ vIn.q.banner = <<"9", ".", "6", " ", "1", "0", ".", "1", " ", "1", "4", ".", "2", " ", "x">>
    /\ vIn.want = MinPostgresVersion
    /\ vOut.got.segs = <<10, 1, 0>>
    /\ vOut.err = "nil"

(***************************************************************************)
(* The resolver on its own: ParseProviderSource applied to every           *)
(* RequiredProvider of a bounded set                                       *)
(***************************************************************************)
MaxSourceLen == 3

\* 'B' stands for the characters an identifier may not hold
SourceChars == {"a", "B", "/"}

SourceStrings == {<<>>} \cup SeqsUpTo(SourceChars, MaxSourceLen)

RequiredProviders == [Source : {NilString} \cup {Ptr(x) : x \in SourceStrings}, Name : SourceStrings]

InitSource ==
    /\ GateInit /\ VerIdle
    /\ sIn \in RequiredProviders
    /\ sArgs = <<>>
    /\ sOut = NoResult

\* mutant: a source the parser rejects is retried as the bare name
ParseProviderSourceRetried ==
    /\ ~sOut.called
    /\ LET first == ParseProviderName(requestedSource(sIn))
           again == ParseProviderName(sIn.Name)
       IN  IF first.err = "nil"
           THEN /\ sArgs' = Append(sArgs, requestedSource(sIn))
                /\ sOut' = [called |-> TRUE, org |-> first.org,
                            provider |-> first.provider, err |-> first.err]
           ELSE /\ sArgs' = sArgs \o <<requestedSource(sIn), sIn.Name>>
                /\ sOut' = [called |-> TRUE, org |-> again.org,
                            provider |-> again.provider, err |-> again.err]
    /\ UNCHANGED <<sIn, gateVars, verVars>>

\* one call ParseProviderSource(requestedProvider)
ParseProviderSource ==
    /\ ~sOut.called
    /\ sArgs' = Append(sArgs, requestedSource(sIn))
    /\ sOut' = [called |-> TRUE,
                org |-> ParseProviderName(requestedSource(sIn)).org,
                provider |-> ParseProviderName(requestedSource(sIn)).provider,
                err |-> ParseProviderName(requestedSource(sIn)).err]
    /\ UNCHANGED <<sIn, gateVars, verVars>>

NextSource == ParseProviderSource

SpecSource == InitSource /\ [][NextSource]_vars

\* C10: for a provider whose Source is nil or the empty string, the one
\* string handed to the registry name parser is the provider's Name as it
\* is, whether the Source was nil or empty.
C10_AbsentSourceFallsBackToName ==
    sOut.called /\ (sIn.Source.isNil \/ sIn.Source.val = <<>>) =>
        sArgs = <<sIn.Name>>

C10_Witness ==
    /\ sOut.called
    /\ sIn = [Source |-> Ptr(<<>>), Name |-> <<"a", "a">>]
    /\ sArgs = <<(<<"a", "a">>)>>
    /\ sOut.err = "nil" /\ sOut.provider = <<"a", "a">>

\* the Source of the provider is explicit: neither nil nor empty
ExplicitSource == ~sIn.Source.isNil /\ sIn.Source.val # <<>>

HasSlash(str) == \E i \in 1..Len(str) : str[i] = "/"

\* C11: for an explicit Source without '/', the string handed to the parser
\* is Source, '/', Name; for an explicit Source with a '/', it is the Source
\* as it is, and the result is that of the Source alone, whatever the Name.
C11_ExplicitSource ==
    sOut.called /\ ExplicitSource =>
        IF HasSlash(sIn.Source.val)
        THEN /\ sArgs = <<sIn.Source.val>>
             /\ sOut.err = ParseProviderName(sIn.Source.val).err
             /\ sOut.org = ParseProviderName(sIn.Source.val).org
             /\ sOut.provider = ParseProviderName(sIn.Source.val).provider
        ELSE sArgs = <<sIn.Source.val \o <<"/">> \o sIn.Name>>

C11_Witness ==
    /\ sOut.called
    /\ sIn = [Source |-> Ptr(<<"a", "/", "a">>), Name |-> <<"a", "a", "a">>]
    /\ sArgs = <<(<<"a", "/", "a">>)>>
    /\ sOut.org = <<"a">> /\ sOut.provider = <<"a">> /\ sOut.err = "nil"

\* C12: a call hands exactly one string to the parser and returns the
\* parser's organization, name and error for that string as they are; a
\* failure of the parser is what the caller gets.
C12_ParserResultVerbatim ==
    sOut.called =>
        /\ Len(sArgs) = 1
        /\ sOut.org = ParseProviderName(sArgs[1]).org
        /\ sOut.provider = ParseProviderName(sArgs[1]).provider
        /\ sOut.err = ParseProviderName(sArgs[1]).err

C12_Witness ==
    /\ sOut.called
    /\ sIn = [Source |-> Ptr(<<"a", "/", "/">>), Name |-> <<"a">>]
    /\ sArgs = <<(<<"a", "/", "/">>)>>
    /\ sOut.err = "invalid provider name"
    /\ sOut.org = <<>> /\ sOut.provider = <<>>

(***************************************************************************)
(* Order of failures, resources and order of operations                    *)
(***************************************************************************)
\* the version check of the ended pass of e failed: no connection could be
\* leased, or doValidatePostgresVersion found a fault
VersionFailed(e) ==
    /\ Ended(e) /\ calls[e].acquire = 1
    /\ ~resp[e].acquire \/ ~VersionPassed(e)

VersionErrors == {"acquire", "error getting PostgreSQL version", "unsupported PostgreSQL version"}

\* C13: of an ended pass, a connection or ping failure is what is reported
\* (connected=false); otherwise a version-check failure is reported, whether
\* or not the identity query failed; the identity error is returned only when
\* ping and version check succeeded; a failed status query alone leaves the
\* returned error nil.
C13_FailurePriority ==
    \A e \in Executors :
        Ended(e) =>
            /\ Unreachable(e) => ~ret[e].connected /\ ret[e].err \in {"connect", "ping"}
            /\ ~Unreachable(e) => ret[e].connected
            /\ VersionFailed(e) => ret[e].err \in VersionErrors
            /\ ret[e].err = "identity" =>
                   /\ resp[e].connect /\ resp[e].ping /\ resp[e].id.err
                   /\ VersionPassed(e)
            /\ (~Unreachable(e) /\ ~VersionFailed(e) /\ ~resp[e].id.err) => ret[e].err = "nil"

C13_Witness ==
    /\ Ended(1) /\ resp[1].id.err /\ resp[1].status.err
    /\ resp[1].version.banner = <<"P", " ", "9", ".", "6">> /\ ~resp[1].version.err
    /\ ret[1] = Return(TRUE, "unsupported PostgreSQL version")

\* C14: a connection is leased only while the version check runs; whatever
\* the check returns the connection is released, so that no lease is held
\* once a pass has ended; when the lease fails nothing is leased or released,
\* no version query is issued and the lease error is returned.
C14_LeaseReleased ==
    \A e \in Executors :
        /\ leased[e] = (IF pc[e] = "version" THEN 1 ELSE 0)
        /\ Ended(e) /\ calls[e].acquire = 1 /\ ~resp[e].acquire =>
               ret[e] = Return(TRUE, "acquire") /\ calls[e].version = 0

C14_Witness ==
    /\ Ended(1) /\ calls[1].version = 1 /\ resp[1].version.err
    /\ ret[1].err = "error getting PostgreSQL version"
    /\ leased[1] = 0

Total(c) == c.connect + c.ping + c.id + c.status + c.acquire + c.version

\* the store operations of the pass of e so far are a prefix of
\* connect, ping, identity, status, acquire, version
InOrder(e) ==
    LET c == calls[e]
    IN  /\ \A k \in {c.connect, c.ping, c.id, c.status, c.acquire, c.version} : k \in {0, 1}
        /\ c.ping = 1 => c.connect = 1 /\ resp[e].connect
        /\ c.id = 1 => c.ping = 1 /\ resp[e].ping
        /\ c.status = 1 => c.id = 1
        /\ c.acquire = 1 => c.status = 1
        /\ c.version = 1 => c.acquire = 1 /\ resp[e].acquire /\ c.id = 1 /\ c.status = 1
        /\ Ended(e) /\ c.id = 1 => c.status = 1

\* a step issues at most one store operation for e, or starts a new pass
OneOperation(e) ==
    calls'[e] # calls[e] =>
        \/ calls'[e] = [NoCalls EXCEPT !.connect = 1] /\ pc[e] \in {"new", "done"}
        \/ Total(calls'[e]) = Total(calls[e]) + 1

\* C15: a pass issues ping, identity query, status query and version query
\* one at a time in this order, each at most once; the version query comes
\* after both the identity and the status query, and the status query is
\* issued also when the identity query failed.
C15_SequentialOrder ==
    /\ [](\A e \in Executors : InOrder(e))
    /\ [][\A e \in Executors : OneOperation(e)]_vars

C15_Witness ==
    /\ Ended(1) /\ resp[1].id.err /\ ~resp[1].status.err
    /\ calls[1] = [connect |-> 1, ping |-> 1, id |-> 1, status |-> 1, acquire |-> 1, version |-> 1]

(***************************************************************************)
(* Validate called again on the same Executor: the gate with the outcome   *)
(* of the pass before kept beside the current one                          *)
(***************************************************************************)
\* the pass of e that has just ended, or none
Snapshot(e) ==
    [valid |-> pc[e] = "done", resp |-> resp[e], calls |-> calls[e], ret |-> ret[e],
     dbId |-> dbId[e], info |-> info[e]]

\* Validate is entered, and the pass before is remembered
Revalidate(e) == Connect(e) /\ prev' = [prev EXCEPT ![e] = Snapshot(e)]

NextRepeat ==
    \/ \E e \in Solo : Revalidate(e) /\ UNCHANGED <<verVars, srcVars>>
    \/ \E e \in Solo : ValidatePostgresConnection(e) /\ UNCHANGED <<prev, verVars, srcVars>>
    \/ \E e \in Solo : GetDatabaseId(e) /\ UNCHANGED <<prev, verVars, srcVars>>
    \/ \E e \in Solo : GetDatabaseInfo(e) /\ UNCHANGED <<prev, verVars, srcVars>>
    \/ \E e \in Solo : Acquire(e) /\ UNCHANGED <<prev, verVars, srcVars>>
    \/ \E e \in Solo : ValidatePostgresVersion(e) /\ UNCHANGED <<prev, verVars, srcVars>>
    \/ \E e \in Solo : Info(e) /\ UNCHANGED <<prev, verVars, srcVars>>
    \/ \E e \in Solo : Identifier(e) /\ UNCHANGED <<prev, verVars, srcVars>>

SpecRepeat == Init /\ [][NextRepeat]_vars

\* the ended pass of e came after another one and got the same answers
SameAnswersAgain(e) == Ended(e) /\ prev[e].valid /\ resp[e] = prev[e].resp

\* every operation the answers of the pass of e allow was issued
AllIssued(e) ==
    /\ calls[e].connect = 1
    /\ resp[e].connect => calls[e].ping = 1
    /\ resp[e].connect /\ resp[e].ping =>
           /\ calls[e].id = 1 /\ calls[e].status = 1 /\ calls[e].acquire = 1
           /\ resp[e].acquire => calls[e].version = 1

\* C16: a pass that follows another one on the same Executor and gets the
\* same answers issues every operation again, as the pass before did, and
\* ends with the same returned pair and the same cached identity and status.
C16_RevalidateSameOutcome ==
    \A e \in Executors :
        SameAnswersAgain(e) =>
            /\ AllIssued(e)
            /\ calls[e] = prev[e].calls
            /\ ret[e] = prev[e].ret
            /\ dbId[e] = prev[e].dbId
            /\ info[e] = prev[e].info

C16_Witness ==
    /\ SameAnswersAgain(1)
    /\ ret[1] = Return(TRUE, "nil") /\ prev[1].ret = Return(TRUE, "nil")
    /\ dbId[1] = "7001" /\ info[1] \in StoreInfos
    /\ calls[1].id = 1 /\ calls[1].status = 1 /\ calls[1].version = 1

\* C20: when the most recent pass returned connected=true, the cached
\* identity and status are those of that pass's own queries: a failed
\* identity query leaves no identity, a failed status query the sentinel,
\* whatever an earlier pass had cached.
C20_CacheIsOfLastPass ==
    \A e \in Executors :
        Ended(e) /\ ret[e].connected =>
            /\ calls[e].id = 1 /\ calls[e].status = 1
            /\ dbId[e] = (IF resp[e].id.err THEN "" ELSE resp[e].id.res)
            /\ info[e] = (IF resp[e].status.err
                          THEN [Version |-> "unknown", Uptime |-> 0, FullVersion |-> "unknown"]
                          ELSE resp[e].status.res)
            /\ out[e].op = "Identifier" =>
                   out[e].present = ~resp[e].id.err /\ out[e].id = dbId[e]
            /\ out[e].op = "Info" => out[e].info = info[e]

C20_Witness ==
    /\ Ended(1) /\ ret[1].connected
    /\ prev[1].valid /\ prev[1].dbId = "7001" /\ prev[1].info \in StoreInfos
    /\ resp[1].id.err /\ resp[1].status.err
    /\ dbId[1] = "" /\ info[1].Version = "unknown"
    /\ out[1].op = "Identifier" /\ ~out[1].present

(***************************************************************************)
(* Two Executors, each validated once, their steps interleaved             *)
(***************************************************************************)
\* the first Validate of a new Executor is entered
FirstValidate(e) == pc[e] = "new" /\ Connect(e)

NextPar ==
    \/ \E e \in Executors : FirstValidate(e) /\ UNCHANGED <<prev, verVars, srcVars>>
    \/ \E e \in Executors : ValidatePostgresConnection(e) /\ UNCHANGED <<prev, verVars, srcVars>>
    \/ \E e \in Executors : GetDatabaseId(e) /\ UNCHANGED <<prev, verVars, srcVars>>
    \/ \E e \in Executors : GetDatabaseInfo(e) /\ UNCHANGED <<prev, verVars, srcVars>>
    \/ \E e \in Executors : Acquire(e) /\ UNCHANGED <<prev, verVars, srcVars>>
    \/ \E e \in Executors : ValidatePostgresVersion(e) /\ UNCHANGED <<prev, verVars, srcVars>>
    \/ \E e \in Executors : pc[e] = "done" /\ Info(e) /\ UNCHANGED <<prev, verVars, srcVars>>
    \/ \E e \in Executors : pc[e] = "done" /\ Identifier(e) /\ UNCHANGED <<prev, verVars, srcVars>>

SpecPar == Init /\ [][NextPar]_vars

\* the answers a and b are the same but for the one to the status query
SameButStatus(a, b) == [a EXCEPT !.status = b.status] = b

\* C17: two passes whose answers differ at most in the status query return
\* the same (connected, error) pair and cache the same identity; only the
\* cached status differs, each being that of its own status query.
C17_StatusDoesNotDecide ==
    Ended(1) /\ Ended(2) /\ SameButStatus(resp[1], resp[2]) =>
        /\ ret[1] = ret[2]
        /\ dbId[1] = dbId[2]
        /\ \A e \in Executors : calls[e].status = 1 => info[e] = DatabaseInfoOf(resp[e].status)
        /\ calls[1] = calls[2]

C17_Witness ==
    /\ Ended(1) /\ Ended(2) /\ SameButStatus(resp[1], resp[2])
    /\ resp[1].status.err /\ ~resp[2].status.err
    /\ ret[1] = Return(TRUE, "nil") /\ ret[2] = Return(TRUE, "nil")
    /\ info[1] # info[2]

\* what one Validate on a new Executor returns and caches for the answers r
AloneRet(r) ==
    IF ~r.connect THEN Return(FALSE, "connect")
    ELSE IF ~r.ping THEN Return(FALSE, "ping")
    ELSE IF ~r.acquire THEN Return(TRUE, "acquire")
    ELSE IF doValidatePostgresVersion(r.version, MinPostgresVersion) # "nil"
         THEN Return(TRUE, doValidatePostgresVersion(r.version, MinPostgresVersion))
    ELSE Return(TRUE, IF r.id.err THEN "identity" ELSE "nil")

AloneDbId(r) == IF r.connect /\ r.ping THEN r.id.res ELSE ""

AloneInfo(r) ==
    IF r.connect /\ r.ping
    THEN (IF r.status.err
          THEN [Version |-> "unknown", Uptime |-> 0, FullVersion |-> "unknown"]
          ELSE r.status.res)
    ELSE ZeroInfo

\* all that belongs to Executor e and its pass
Own(e) == <<pc[e], dbId[e], info[e], dbIdErr[e], resp[e], calls[e], leased[e], ret[e], out[e]>>

\* C18: however the passes of two Executors interleave, each ends with the
\* returned pair and the cached identity and status it has when run alone,
\* and a step of one changes nothing of the other.
C18_InstancesIndependent ==
    /\ [](\A e \in Executors :
            Ended(e) =>
                /\ ret[e] = AloneRet(resp[e])
                /\ dbId[e] = AloneDbId(resp[e])
                /\ info[e] = AloneInfo(resp[e]))
    /\ [][\A e, f \in Executors : (e # f /\ Own(e)' # Own(e)) => Own(f)' = Own(f)]_vars

C18_Witness ==
    /\ pc[1] = "version" /\ pc[2] = "getinfo"
    /\ dbId[1] = "7001" /\ dbId[2] = "7002"
    /\ info[1] \in StoreInfos /\ info[2] = ZeroInfo

(***************************************************************************)
(* Termination: the gate when every store operation returns                *)
(***************************************************************************)
\* a store operation of the running pass of e returns
OperationReturns(e) ==
    /\ \/ ValidatePostgresConnection(e)
       \/ GetDatabaseId(e)
       \/ GetDatabaseInfo(e)
       \/ Acquire(e)
       \/ ValidatePostgresVersion(e)
    /\ UNCHANGED <<prev, verVars, srcVars>>

SpecLive == Init /\ [][Next]_vars /\ \A e \in Solo : WF_vars(OperationReturns(e))

InPass(e) == pc[e] \in {"ping", "getid", "getinfo", "acquire", "version"}

\* the state of the gate's state machine.  Entering Validate and its Connect
\* are one step, so a pass is NotStarted until its ping has succeeded; a
\* version check that fails for any reason ends in IncompatibleVersion.
Phase(e) ==
    IF pc[e] \in {"new", "ping"} THEN "NotStarted"
    ELSE IF InPass(e) THEN "Connected"
    ELSE IF ~ret[e].connected THEN "Unreachable"
    ELSE IF ret[e].err \in VersionErrors THEN "IncompatibleVersion"
    ELSE IF ret[e].err \in {"nil", "identity"} THEN "VersionChecked"
    ELSE "none"

\* a step moves the state machine of e along one of its edges; a new pass
\* leaves a terminal state
PhaseEdge(e) ==
    Phase(e)' # Phase(e) =>
        /\ Phase(e)' = "NotStarted" => pc[e] \in {"new", "done"}
        /\ Phase(e)' = "Connected" => Phase(e) = "NotStarted"
        /\ Phase(e)' = "Unreachable" => Phase(e) = "NotStarted" \/ pc[e] = "done"
        /\ Phase(e)' \in {"IncompatibleVersion", "VersionChecked"} => Phase(e) = "Connected"

\* C19: when every store operation returns, a pass that has begun ends; an
\* ended pass is in one of Unreachable, IncompatibleVersion, VersionChecked;
\* Unreachable is entered from NotStarted only, IncompatibleVersion and
\* VersionChecked from Connected only.
C19_PassTerminates ==
    /\ \A e \in Executors : InPass(e) ~> pc[e] = "done"
    /\ [](\A e \in Executors :
            pc[e] = "done" =>
                /\ ret[e].returned
                /\ Phase(e) \in {"Unreachable", "IncompatibleVersion", "VersionChecked"}
                /\ Phase(e) = "Unreachable" <=> Unreachable(e)
                /\ Phase(e) = "VersionChecked" <=> VersionPassed(e))
    /\ [][\A e \in Executors : PhaseEdge(e)]_vars

C19_Witness ==
    /\ Ended(1) /\ Phase(1) = "IncompatibleVersion"
    /\ resp[1].version = [banner |-> <<"P", " ", "9", ".", "6">>, err |-> FALSE]

====
